---- MODULE Spec2Model ----
(***************************************************************************)
(* A model of type_bridge/attribute.py: the Card marker, the Flag resolver *)
(* with AttributeFlags.to_typeql_annotations, and the schema definition    *)
(* text of an Attribute class.                                             *)
(*                                                                         *)
(* Python's `int | None` and `str | None` values are sequences of length   *)
(* at most one: None is <<>> and a present value v is <<v>>.  Strings are  *)
(* strings; an f-string is the concatenation of its pieces.                *)
(***************************************************************************)
EXTENDS Integers, Sequences, FiniteSets, TLC

VARIABLES
    pc,          \* position of the running declaration
    call,        \* the Card(...) call of the declaration, <<>> when it has none
    card,        \* the Card object the call constructed, <<>> when none
    raised,      \* the exception that ended the declaration, NoExc when none
    markers,     \* the arguments of Flag(*annotations)
    flags,       \* the AttributeFlags returned by Flag, <<>> before
    annotations, \* the list returned by to_typeql_annotations, <<>> before
    cls,         \* the Attribute subclass being defined, <<>> when none
    definition,  \* the text returned by to_schema_definition, <<>> before
    ancestors,   \* the classes created before cls, from which it descends
    inputs,      \* the filter calls made on the query builder, each the list
                 \* of typed expressions and keyword lookups it was given
    predicates,  \* the predicates the query builder has accumulated
    query,       \* the compiled query text, <<>> before execute
    results      \* the employee names of the relations selected, <<>> before

vars == <<pc, call, card, raised, markers, flags, annotations, cls, definition,
          ancestors, inputs, predicates, query, results>>

(***************************************************************************)
(* Bounds of the model.                                                    *)
(***************************************************************************)
MaxBound == 2      \* largest integer given as a cardinality bound
MaxArgs == 3       \* most positional arguments given to Card
MaxMarkers == 3    \* most markers given to one Flag call
MaxDepth == 2      \* most subclasses derived one from another below a class
MaxCallSize == 2   \* most expressions and lookups given to one filter call
MaxPredicates == 2 \* most predicates accumulated by one query builder

None == <<>>
Some(v) == <<v>>
NoExc == "none"

IntVals == (0 - 1)..MaxBound
OptInt == {None} \cup {Some(n) : n \in IntVals}

SeqsUpTo(S, n) == UNION {[1..k -> S] : k \in 0..n}

(***************************************************************************)
(* String helpers.                                                         *)
(***************************************************************************)
StartsWith(s, p) == Len(s) >= Len(p) /\ SubSeq(s, 1, Len(p)) = p
EndsWith(s, p) == Len(s) >= Len(p) /\ SubSeq(s, Len(s) - Len(p) + 1, Len(s)) = p
Contains(s, p) == \E i \in 1..(Len(s) - Len(p) + 1) : SubSeq(s, i, i + Len(p) - 1) = p

\* str(n) of an integer, as an f-string formats it
Str(n) == IF n < 0 THEN "-" \o ToString(0 - n) ELSE ToString(n)

(***************************************************************************)
(* The markers.  Key and Unique are module-level objects compared by       *)
(* identity; a Card is an object with the attributes min and max.          *)
(***************************************************************************)
Key == [kind |-> "Key"]
Unique == [kind |-> "Unique"]
Other == [kind |-> "Other"]     \* any argument that is none of the three

CardObject(min, max) == [kind |-> "Card", min |-> min, max |-> max]

\* Card.__init__ with the two-argument branch taking max from the keyword, as
\* the one-argument branch does: C3 tells the two apart
CardInit_KeywordMax(args, min, max) ==
    IF args # <<>>
    THEN IF Len(args) = 1
         THEN [exc |-> NoExc, obj |-> Some(CardObject(Some(args[1]), max))]
         ELSE IF Len(args) = 2
              THEN [exc |-> NoExc, obj |-> Some(CardObject(Some(args[1]), max))]
              ELSE [exc |-> "ValueError", obj |-> None]
    ELSE IF min = None /\ max # None
         THEN [exc |-> NoExc, obj |-> Some(CardObject(Some(0), max))]
         ELSE [exc |-> NoExc, obj |-> Some(CardObject(min, max))]

\* Card.__init__ without the check on the number of positional arguments:
\* C4 tells the two apart
CardInit_NoArityCheck(args, min, max) ==
    IF args # <<>>
    THEN IF Len(args) = 1
         THEN [exc |-> NoExc, obj |-> Some(CardObject(Some(args[1]), max))]
         ELSE [exc |-> NoExc, obj |-> Some(CardObject(Some(args[1]), Some(args[2])))]
    ELSE IF min = None /\ max # None
         THEN [exc |-> NoExc, obj |-> Some(CardObject(Some(0), max))]
         ELSE [exc |-> NoExc, obj |-> Some(CardObject(min, max))]

\* Card.__init__(self, *args, min=None, max=None): the exception raised and
\* the object constructed (none when it raised)
CardInit(args, min, max) ==
    IF args # <<>>
    THEN IF Len(args) = 1
         THEN [exc |-> NoExc, obj |-> Some(CardObject(Some(args[1]), max))]
         ELSE IF Len(args) = 2
              THEN [exc |-> NoExc, obj |-> Some(CardObject(Some(args[1]), Some(args[2])))]
              ELSE [exc |-> "ValueError", obj |-> None]
    ELSE IF min = None /\ max # None
         THEN [exc |-> NoExc, obj |-> Some(CardObject(Some(0), max))]
         ELSE [exc |-> NoExc, obj |-> Some(CardObject(min, max))]

\* the calls Card(*args, min=.., max=..) within the bounds
CardCalls ==
    {[args |-> a, min |-> mn, max |-> mx] :
        a \in SeqsUpTo(IntVals, MaxArgs), mn \in OptInt, mx \in OptInt}

\* the Card objects a call can construct
CardObjects ==
    {CardInit(c.args, c.min, c.max).obj[1] :
        c \in {d \in CardCalls : CardInit(d.args, d.min, d.max).exc = NoExc}}

\* the arguments of a Flag call with several markers; a Card with a negative
\* bound reaches Flag through the declaration  field = Flag(Card(...))
Markers ==
    {Key, Unique, Other}
    \cup {c \in CardObjects : (c.min = None \/ c.min[1] >= 0)
                               /\ (c.max = None \/ c.max[1] >= 0)}

(***************************************************************************)
(* AttributeFlags and Flag.                                                *)
(***************************************************************************)
\* AttributeFlags(): the dataclass defaults
AttributeFlags ==
    [is_key |-> FALSE, is_unique |-> FALSE, card_min |-> None, card_max |-> None,
     has_explicit_card |-> FALSE]

\* Flag's loop body without the assignment to has_explicit_card: C15 tells
\* the two apart
FlagStep_NoExplicitCard(st, ann) ==
    IF ann = Key
    THEN [st EXCEPT !.flags.is_key = TRUE]
    ELSE IF ann = Unique
         THEN [st EXCEPT !.flags.is_unique = TRUE]
         ELSE IF ann.kind = "Card"
              THEN [flags |-> [st.flags EXCEPT !.card_min = ann.min,
                                               !.card_max = ann.max],
                    has_card |-> TRUE]
              ELSE st

\* Flag's loop body with the key default applied where Key is met, over
\* whatever a Card before it stored: C17 tells the two apart
FlagStep_KeyResetsCard(st, ann) ==
    IF ann = Key
    THEN [st EXCEPT !.flags.is_key = TRUE,
                    !.flags.card_min = Some(1),
                    !.flags.card_max = Some(1)]
    ELSE IF ann = Unique
         THEN [st EXCEPT !.flags.is_unique = TRUE]
         ELSE IF ann.kind = "Card"
              THEN [flags |-> [st.flags EXCEPT !.card_min = ann.min,
                                               !.card_max = ann.max,
                                               !.has_explicit_card = TRUE],
                    has_card |-> TRUE]
              ELSE st

\* the body of Flag's loop for one argument; st is (flags, has_card)
FlagStep(st, ann) ==
    IF ann = Key
    THEN [st EXCEPT !.flags.is_key = TRUE]
    ELSE IF ann = Unique
         THEN [st EXCEPT !.flags.is_unique = TRUE]
         ELSE IF ann.kind = "Card"
              THEN [flags |-> [st.flags EXCEPT !.card_min = ann.min,
                                               !.card_max = ann.max,
                                               !.has_explicit_card = TRUE],
                    has_card |-> TRUE]
              ELSE st

RECURSIVE FlagLoop(_, _)
FlagLoop(st, anns) ==
    IF anns = <<>> THEN st ELSE FlagLoop(FlagStep(st, Head(anns)), Tail(anns))

\* Flag without the default card(1,1) of a key: C9 tells the two apart
Flag_NoKeyDefault(anns) ==
    FlagLoop([flags |-> AttributeFlags, has_card |-> FALSE], anns).flags

\* Flag(*annotations)
Flag(anns) ==
    LET st == FlagLoop([flags |-> AttributeFlags, has_card |-> FALSE], anns)
    IN  IF st.flags.is_key /\ ~st.has_card
        THEN [st.flags EXCEPT !.card_min = Some(1), !.card_max = Some(1)]
        ELSE st.flags

\* to_typeql_annotations without the test on is_key before "@card": C1 tells
\* the two apart
to_typeql_annotations_CardWithKey(self) ==
    LET a1 == IF self.is_key THEN <<"@key">> ELSE <<>>
        a2 == IF self.is_unique THEN Append(a1, "@unique") ELSE a1
        should_output_card == self.card_min # None \/ self.card_max # None
        is_default_card == self.card_min = Some(1) /\ self.card_max = Some(1)
        min_val == IF self.card_min # None THEN self.card_min[1] ELSE 0
    IN  IF should_output_card
        THEN IF ~(self.is_unique /\ is_default_card)
             THEN IF self.card_max # None
                  THEN Append(a2, "@card(" \o Str(min_val) \o ".." \o Str(self.card_max[1]) \o ")")
                  ELSE Append(a2, "@card(" \o Str(min_val) \o "..)")
             ELSE a2
        ELSE a2

\* to_typeql_annotations appending "@unique" before "@key": C6 tells the two
\* apart
to_typeql_annotations_UniqueFirst(self) ==
    LET a1 == IF self.is_unique THEN <<"@unique">> ELSE <<>>
        a2 == IF self.is_key THEN Append(a1, "@key") ELSE a1
        should_output_card == self.card_min # None \/ self.card_max # None
        is_default_card == self.card_min = Some(1) /\ self.card_max = Some(1)
        min_val == IF self.card_min # None THEN self.card_min[1] ELSE 0
    IN  IF should_output_card /\ ~self.is_key
        THEN IF ~(self.is_unique /\ is_default_card)
             THEN IF self.card_max # None
                  THEN Append(a2, "@card(" \o Str(min_val) \o ".." \o Str(self.card_max[1]) \o ")")
                  ELSE Append(a2, "@card(" \o Str(min_val) \o "..)")
             ELSE a2
        ELSE a2

\* AttributeFlags.to_typeql_annotations(self)
to_typeql_annotations(self) ==
    LET a1 == IF self.is_key THEN <<"@key">> ELSE <<>>
        a2 == IF self.is_unique THEN Append(a1, "@unique") ELSE a1
        should_output_card == self.card_min # None \/ self.card_max # None
        is_default_card == self.card_min = Some(1) /\ self.card_max = Some(1)
        min_val == IF self.card_min # None THEN self.card_min[1] ELSE 0
    IN  IF should_output_card /\ ~self.is_key
        THEN IF ~(self.is_unique /\ is_default_card)
             THEN IF self.card_max # None
                  THEN Append(a2, "@card(" \o Str(min_val) \o ".." \o Str(self.card_max[1]) \o ")")
                  ELSE Append(a2, "@card(" \o Str(min_val) \o "..)")
             ELSE a2
        ELSE a2

(***************************************************************************)
(* Attribute classes.  A class is its __name__ and its class attributes.   *)
(***************************************************************************)
UpperCase == "ABCDEFGHIJKLMNOPQRSTUVWXYZ"
LowerCase == "abcdefghijklmnopqrstuvwxyz"

\* str.lower() of one character
LowerChar(c) ==
    IF \E i \in 1..Len(UpperCase) : SubSeq(UpperCase, i, i) = c
    THEN LET i == CHOOSE j \in 1..Len(UpperCase) : SubSeq(UpperCase, j, j) = c
         IN  SubSeq(LowerCase, i, i)
    ELSE c

\* str.lower()
RECURSIVE Lower(_)
Lower(s) ==
    IF s = "" THEN "" ELSE LowerChar(SubSeq(s, 1, 1)) \o Lower(SubSeq(s, 2, Len(s)))

\* the value-type base classes String, Long, Double, Boolean, DateTime, each
\* itself a subclass of Attribute named by __init_subclass__
BaseClasses ==
    {[name |-> "String", value_type |-> "string"],
     [name |-> "Long", value_type |-> "long"],
     [name |-> "Double", value_type |-> "double"],
     [name |-> "Boolean", value_type |-> "boolean"],
     [name |-> "DateTime", value_type |-> "datetime"]}

ClassNames == {"Name", "Age", "PersonName"}
SuperTypes == {None, Some(""), Some("name"), Some("id")}

\* __init_subclass__ naming a class only when it has no name yet, so that a
\* subclass keeps the name found on its parent: C16 tells the two apart
init_subclass_KeepInherited(c) ==
    IF c._attr_name = None THEN [c EXCEPT !._attr_name = Some(Lower(c.name))] ELSE c

\* Attribute.__init_subclass__(cls)
init_subclass(c) == [c EXCEPT !._attr_name = Some(Lower(c.name))]

\* Attribute.get_attribute_name(cls):  cls._attr_name or cls.__name__.lower()
get_attribute_name(c) ==
    IF c._attr_name # None /\ c._attr_name[1] # ""
    THEN c._attr_name[1]
    ELSE Lower(c.name)

\* Attribute.get_value_type(cls)
get_value_type(c) == c.value_type

\* to_schema_definition without the abstract clause: C5 tells the two apart
to_schema_definition_NoAbstract(c) ==
    LET attr_name == get_attribute_name(c)
        value_type == get_value_type(c)
        d1 == IF c._supertype # None /\ c._supertype[1] # ""
              THEN "attribute " \o attr_name \o " sub " \o c._supertype[1]
                       \o ", value " \o value_type
              ELSE "attribute " \o attr_name \o ", value " \o value_type
    IN  d1 \o ";"

\* Attribute.to_schema_definition(cls)
to_schema_definition(c) ==
    LET attr_name == get_attribute_name(c)
        value_type == get_value_type(c)
        d1 == IF c._supertype # None /\ c._supertype[1] # ""
              THEN "attribute " \o attr_name \o " sub " \o c._supertype[1]
                       \o ", value " \o value_type
              ELSE "attribute " \o attr_name \o ", value " \o value_type
        d2 == IF c.abstract THEN d1 \o ", abstract" ELSE d1
    IN  d2 \o ";"

(***************************************************************************)
(* Queries on a relation type.  The query builder, the keyword lookups and *)
(* the typed role-field expressions are described by the specification     *)
(* (sections 4.4 and 4.5); the relation type and its data are those of     *)
(* tests/integration/queries/test_role_field_expressions.py.  A primitive  *)
(* value is an integer or a string.                                        *)
(***************************************************************************)
IntValue(n) == [kind |-> "int", n |-> n, s |-> ""]
StrValue(t) == [kind |-> "str", n |-> 0, s |-> t]

\* the Employment relations the fixture inserts, each named by its employee
Database ==
    {[id |-> "Alice",
      employee |-> [name |-> StrValue("Alice"), age |-> IntValue(30),
                    city |-> StrValue("NYC")],
      employer |-> [name |-> StrValue("TechCorp"), industry |-> StrValue("Technology")],
      position |-> StrValue("Engineer"), salary |-> IntValue(100000)],
     [id |-> "Bob",
      employee |-> [name |-> StrValue("Bob"), age |-> IntValue(25),
                    city |-> StrValue("LA")],
      employer |-> [name |-> StrValue("TechCorp"), industry |-> StrValue("Technology")],
      position |-> StrValue("Designer"), salary |-> IntValue(80000)],
     [id |-> "Charlie",
      employee |-> [name |-> StrValue("Charlie"), age |-> IntValue(40),
                    city |-> StrValue("NYC")],
      employer |-> [name |-> StrValue("FinCo"), industry |-> StrValue("Finance")],
      position |-> StrValue("Analyst"), salary |-> IntValue(90000)]}

\* the operator suffixes a keyword lookup may end with
Operators == {"eq", "neq", "gt", "gte", "lt", "lte", "contains", "like"}
Comparisons == {"eq", "neq", "gt", "gte", "lt", "lte"}

\* the internal predicate: path segments, operator, primitive operand
Predicate(path, op, operand) == [path |-> path, op |-> op, operand |-> operand]

\* Relation.role.attribute.op(Type(value)), or Relation.attribute.op(Type(value))
TypedExpression(path, op, type, value) ==
    [surface |-> "typed", key |-> "", path |-> path, op |-> op, type |-> type,
     value |-> value]

\* key=value among the keyword arguments of filter
KeywordLookup(key, value) ==
    [surface |-> "lookup", key |-> key, path |-> <<>>, op |-> "", type |-> "",
     value |-> value]

\* key.split("__")
RECURSIVE SplitFrom(_, _, _)
SplitFrom(s, start, i) ==
    IF i >= Len(s)
    THEN <<SubSeq(s, start, Len(s))>>
    ELSE IF SubSeq(s, i, i + 1) = "__"
         THEN <<SubSeq(s, start, i - 1)>> \o SplitFrom(s, i + 2, i + 2)
         ELSE SplitFrom(s, start, i + 1)

Split(s) == SplitFrom(s, 1, 1)

\* "__".join(segments)
RECURSIVE Join(_)
Join(segs) ==
    IF Len(segs) = 0 THEN ""
    ELSE IF Len(segs) = 1 THEN segs[1]
    ELSE segs[1] \o "__" \o Join(Tail(segs))

\* a keyword lookup parsed without looking for a trailing operator: C12 tells
\* the two apart
ParseLookup_NoOperator(key, value) == Predicate(Split(key), "eq", value)

\* a keyword lookup parsed: the trailing segment is the operator when it is a
\* known one, and eq is the operator otherwise
ParseLookup(key, value) ==
    LET segs == Split(key)
        last == segs[Len(segs)]
    IN  IF Len(segs) > 1 /\ last \in Operators
        THEN Predicate(SubSeq(segs, 1, Len(segs) - 1), last, value)
        ELSE Predicate(segs, "eq", value)

\* either surface brought to the internal predicate
Normalize(input) ==
    IF input.surface = "typed"
    THEN Predicate(input.path, input.op, input.value)
    ELSE ParseLookup(input.key, input.value)

NormalizeAll(c) == [i \in DOMAIN c |-> Normalize(c[i])]

\* a filter call that starts from its own predicates alone: C13 tells the two
\* apart
filter_Replace(accumulated, c) == NormalizeAll(c)

\* builder.filter(*expressions, **lookups): the predicates of the new builder
filter(accumulated, c) == accumulated \o NormalizeAll(c)

\* the value at an attribute path of a relation
Resolve(row, path) ==
    IF Len(path) = 2 THEN row[path[1]][path[2]] ELSE row[path[1]]

\* the comparison with gte read as gt: C14 tells the two apart
Satisfies_StrictGte(v, op, c) ==
    CASE op = "eq" -> v = c
      [] op = "neq" -> v # c
      [] op = "gt" -> v.n > c.n
      [] op = "gte" -> v.n > c.n
      [] op = "lt" -> v.n < c.n
      [] op = "lte" -> v.n <= c.n
      [] op = "contains" -> Contains(v.s, c.s)

\* the operator semantics of section 4.4 (like is left to the database)
Satisfies(v, op, c) ==
    CASE op = "eq" -> v = c
      [] op = "neq" -> v # c
      [] op = "gt" -> v.n > c.n
      [] op = "gte" -> v.n >= c.n
      [] op = "lt" -> v.n < c.n
      [] op = "lte" -> v.n <= c.n
      [] op = "contains" -> Contains(v.s, c.s)

Matches(row, p) == Satisfies(Resolve(row, p.path), p.op, p.operand)

\* builder.execute(): the relations every predicate selects
Execute(preds) ==
    {row.id : row \in {r \in Database : \A i \in DOMAIN preds : Matches(r, preds[i])}}

\* the compiled query text: one fragment for each predicate in insertion
\* order, its variables numbered by that order
OperatorSymbol(op) ==
    CASE op = "eq" -> "=="
      [] op = "neq" -> "!="
      [] op = "gt" -> ">"
      [] op = "gte" -> ">="
      [] op = "lt" -> "<"
      [] op = "lte" -> "<="
      [] op = "contains" -> "contains"
      [] op = "like" -> "like"

Literal(v) == IF v.kind = "int" THEN Str(v.n) ELSE "\"" \o v.s \o "\""

Fragment(p, i) ==
    LET n == ToString(i)
        owner == IF Len(p.path) = 2 THEN "$p" \o n ELSE "$r"
        binding == IF Len(p.path) = 2
                   THEN "$r links (" \o p.path[1] \o ": $p" \o n \o "); "
                   ELSE ""
    IN  binding \o owner \o " has " \o p.path[Len(p.path)] \o " $v" \o n \o "; $v" \o n
            \o " " \o OperatorSymbol(p.op) \o " " \o Literal(p.operand) \o ";"

RECURSIVE CompileFrom(_, _)
CompileFrom(preds, i) ==
    IF i > Len(preds) THEN ""
    ELSE " " \o Fragment(preds[i], i) \o CompileFrom(preds, i + 1)

Compile(preds) == "match $r isa rfe_employment;" \o CompileFrom(preds, 1)

\* the conditions the tests filter on: path, attribute type, operator, operand
Condition(path, type, op, operand) ==
    [path |-> path, type |-> type, op |-> op, operand |-> operand]

Conditions ==
    {Condition(<<"employee", "age">>, "Age", "gt", IntValue(25)),
     Condition(<<"employee", "age">>, "Age", "lt", IntValue(35)),
     Condition(<<"employee", "age">>, "Age", "gte", IntValue(30)),
     Condition(<<"employee", "age">>, "Age", "lte", IntValue(30)),
     Condition(<<"employee", "age">>, "Age", "eq", IntValue(30)),
     Condition(<<"employee", "age">>, "Age", "neq", IntValue(30)),
     Condition(<<"employee", "age">>, "Age", "gte", IntValue(25)),
     Condition(<<"salary">>, "Salary", "gt", IntValue(85000)),
     Condition(<<"employer", "name">>, "Name", "contains", StrValue("Tech")),
     Condition(<<"employee", "city">>, "City", "contains", StrValue("Y")),
     Condition(<<"employer", "industry">>, "Industry", "eq", StrValue("Technology"))}

\* the ways one condition is written: the typed expression, the keyword lookup
\* with its operator and, for eq, the keyword lookup without operator
TypedOf(c) == TypedExpression(c.path, c.op, c.type, c.operand)
LookupOf(c) == KeywordLookup(Join(c.path \o <<c.op>>), c.operand)
Surfaces(c) ==
    {TypedOf(c), LookupOf(c)}
    \cup (IF c.op = "eq" THEN {KeywordLookup(Join(c.path), c.operand)} ELSE {})

SurfaceTable == [c \in Conditions |-> Surfaces(c)]

FilterInputs == UNION {SurfaceTable[c] : c \in Conditions}

\* the argument lists of one filter call: positional expressions come before
\* keyword lookups, and no keyword is given twice
ValidCall(c) ==
    \A i, j \in DOMAIN c :
        i < j =>
            /\ ~(c[i].surface = "lookup" /\ c[j].surface = "typed")
            /\ ~(c[i].surface = "lookup" /\ c[i].key = c[j].key)

(***************************************************************************)
(* Initial states: a declaration  field = Flag(Card(...))  about to        *)
(* evaluate its Card call, a declaration  field = Flag(m1, .., mk)  whose  *)
(* markers are already constructed, or a class statement  class N(Base)    *)
(* whose body has run and whose class object is about to be initialised.   *)
(***************************************************************************)
InitCardDecl ==
    /\ pc = "Card"
    /\ call \in {Some(c) : c \in CardCalls}
    /\ markers = <<>>
    /\ cls = None

InitFlagDecl ==
    /\ pc = "Flag"
    /\ call = None
    /\ \E k \in 0..MaxMarkers : markers \in [1..k -> Markers]
    /\ cls = None

\* the new class inherits _attr_name from its base until __init_subclass__ runs
InitClassDef ==
    /\ pc = "class"
    /\ call = None
    /\ markers = <<>>
    /\ cls \in {Some([name |-> n, _attr_name |-> Some(Lower(b.name)),
                      _supertype |-> s, abstract |-> a, value_type |-> b.value_type]) :
                    n \in ClassNames, b \in BaseClasses, s \in SuperTypes, a \in BOOLEAN}

\* Employment.manager(db): a query builder with no predicate
InitQuery ==
    /\ pc = "filter"
    /\ call = None
    /\ markers = <<>>
    /\ cls = None

Init ==
    /\ InitCardDecl \/ InitFlagDecl \/ InitClassDef \/ InitQuery
    /\ card = None
    /\ raised = NoExc
    /\ flags = None
    /\ annotations = None
    /\ definition = None
    /\ ancestors = <<>>
    /\ inputs = <<>>
    /\ predicates = <<>>
    /\ query = None
    /\ results = None

(***************************************************************************)
(* Actions.                                                                *)
(***************************************************************************)
\* the declaration evaluates Card(*args, min=, max=); the object becomes the
\* only argument of Flag, or the exception ends the declaration
CardNew ==
    /\ pc = "Card"
    /\ LET c == call[1]
           r == CardInit(c.args, c.min, c.max)
       IN  /\ raised' = r.exc
           /\ card' = r.obj
           /\ markers' = r.obj
           /\ pc' = IF r.exc = NoExc THEN "Flag" ELSE "raised"
    /\ UNCHANGED <<call, flags, annotations, cls, definition, ancestors,
                 inputs, predicates, query, results>>

\* the declaration calls Flag on its markers
FlagCall ==
    /\ pc = "Flag"
    /\ flags' = Some(Flag(markers))
    /\ pc' = "annotate"
    /\ UNCHANGED <<call, card, raised, markers, annotations, cls, definition, ancestors,
                 inputs, predicates, query, results>>

\* the schema generator renders the ownership annotations of the field
Annotate ==
    /\ pc = "annotate"
    /\ annotations' = Some(to_typeql_annotations(flags[1]))
    /\ pc' = "done"
    /\ UNCHANGED <<call, card, raised, markers, flags, cls, definition, ancestors,
                 inputs, predicates, query, results>>

\* class creation ends with __init_subclass__
InitSubclass ==
    /\ pc = "class"
    /\ cls' = Some(init_subclass(cls[1]))
    /\ pc' = "defined"
    /\ UNCHANGED <<call, card, raised, markers, flags, annotations, definition, ancestors,
                 inputs, predicates, query, results>>

\* the schema generator renders the definition of the attribute type
SchemaDefinition ==
    /\ pc = "defined"
    /\ definition' = Some(to_schema_definition(cls[1]))
    /\ pc' = "done"
    /\ UNCHANGED <<call, card, raised, markers, flags, annotations, cls, ancestors,
                 inputs, predicates, query, results>>

\* a class statement  class n(cls): pass  derives a class from the one just
\* created: the new class object finds every class attribute on its parent
\* until __init_subclass__ runs
Subclass ==
    /\ pc \in {"defined", "done"}
    /\ cls # None
    /\ Len(ancestors) < MaxDepth
    /\ \E n \in ClassNames : cls' = Some([cls[1] EXCEPT !.name = n])
    /\ ancestors' = Append(ancestors, cls[1])
    /\ definition' = None
    /\ pc' = "class"
    /\ UNCHANGED <<call, card, raised, markers, flags, annotations,
                 inputs, predicates, query, results>>

\* one more filter call on the query builder
FilterCall ==
    /\ pc = "filter"
    /\ \E k \in 1..MaxCallSize :
          /\ Len(predicates) + k <= MaxPredicates
          /\ \E c \in [1..k -> FilterInputs] :
                /\ ValidCall(c)
                /\ inputs' = Append(inputs, c)
                /\ predicates' = filter(predicates, c)
    /\ UNCHANGED <<pc, call, card, raised, markers, flags, annotations, cls,
                   definition, ancestors, query, results>>

\* the terminal execute: the query is compiled and the relations selected
ExecuteQuery ==
    /\ pc = "filter"
    /\ query' = Some(Compile(predicates))
    /\ results' = Some(Execute(predicates))
    /\ pc' = "executed"
    /\ UNCHANGED <<call, card, raised, markers, flags, annotations, cls,
                   definition, ancestors, inputs, predicates>>

Next ==
    \/ CardNew \/ FlagCall \/ Annotate
    \/ InitSubclass \/ SchemaDefinition \/ Subclass
    \/ FilterCall \/ ExecuteQuery

Spec == Init /\ [][Next]_vars

(***************************************************************************)
(* Vocabulary of the properties.                                           *)
(***************************************************************************)
Range(q) == {q[i] : i \in DOMAIN q}
HasKey(ms) == \E i \in DOMAIN ms : ms[i] = Key
HasUnique(ms) == \E i \in DOMAIN ms : ms[i] = Unique
HasCard(ms) == \E i \in DOMAIN ms : ms[i].kind = "Card"

\* the Card marker that comes last in the argument list
LastCard(ms) ==
    ms[CHOOSE i \in DOMAIN ms :
          ms[i].kind = "Card" /\ \A j \in DOMAIN ms : j > i => ms[j].kind # "Card"]

IsCardAnnotation(a) == StartsWith(a, "@card")
EmitsCard(anns) == \E a \in Range(anns) : IsCardAnnotation(a)

\* a (min, max) pair that respects  min >= 0  and  min <= max  when both are set
ValidCardinality(min, max) ==
    /\ min # None => min[1] >= 0
    /\ (min # None /\ max # None) => min[1] <= max[1]

C2_UniqueStoresDefaultCard ==
    (annotations # None /\ HasUnique(markers) /\ ~HasKey(markers) /\ ~HasCard(markers)) =>
        /\ flags[1].card_min = Some(1)
        /\ flags[1].card_max = Some(1)
        /\ annotations[1] = <<"@unique">>

(***************************************************************************)
(* C3.  A field whose only marker is a Card: Card(min=m) with no max       *)
(* renders the single annotation "@card(m..)", Card(m, n) renders          *)
(* "@card(m..n)" and Card(max=n) with no min renders "@card(0..n)", for    *)
(* all 0 <= m <= n.                                                        *)
(***************************************************************************)
C3_CardOnlyRendering ==
    (annotations # None /\ call # None) =>
        LET c == call[1] IN
        /\ (c.args = <<>> /\ c.min # None /\ c.max = None /\ c.min[1] >= 0) =>
              annotations[1] = <<"@card(" \o ToString(c.min[1]) \o "..)">>
        /\ (Len(c.args) = 2 /\ 0 <= c.args[1] /\ c.args[1] <= c.args[2]) =>
              annotations[1] =
                  <<"@card(" \o ToString(c.args[1]) \o ".." \o ToString(c.args[2]) \o ")">>
        /\ (c.args = <<>> /\ c.min = None /\ c.max # None /\ c.max[1] >= 0) =>
              annotations[1] = <<"@card(0.." \o ToString(c.max[1]) \o ")">>

C3_Witness ==
    /\ pc = "done"
    /\ call = Some([args |-> <<1, 2>>, min |-> None, max |-> None])
    /\ annotations = Some(<<"@card(1..2)">>)

(***************************************************************************)
(* C4.  Constructing a Card with more than two positional bounds fails at  *)
(* construction time and produces no Card object and no flags; with zero,  *)
(* one or two positional bounds it never raises.  The exception the code   *)
(* raises is ValueError.                                                   *)
(***************************************************************************)
CardArityRule(exc) ==
    (call # None /\ pc # "Card") =>
        /\ Len(call[1].args) > 2 =>
              /\ raised = exc
              /\ pc = "raised"
              /\ card = None /\ flags = None /\ annotations = None
        /\ Len(call[1].args) <= 2 => (raised = NoExc /\ card # None)

C4_CardArityValueError == CardArityRule("ValueError")

\* the claim as stated: the failure is a ConfigurationError
C4_CardArityConfigurationError == CardArityRule("ConfigurationError")

C4_Witness ==
    /\ pc = "raised"
    /\ Len(call[1].args) = 3
    /\ raised = "ValueError"

(***************************************************************************)
(* C5.  The schema text of an attribute type is exactly                    *)
(*   attribute <name>[ sub <super>], value <kind>[, abstract];             *)
(* where the clause " sub <super>" follows the name after a space, with no *)
(* comma, and is present iff a non-empty supertype is set, ", abstract" is *)
(* present iff the abstract flag is set, and the text ends with ";".       *)
(***************************************************************************)
SchemaTextRule(sub_separator, empty_counts) ==
    definition # None =>
        LET c == cls[1]
            text == definition[1]
            supertype_set(k) ==
                k._supertype # None /\ (empty_counts \/ k._supertype[1] # "")
            sub_clause == IF supertype_set(c)
                          THEN sub_separator \o "sub " \o c._supertype[1]
                          ELSE ""
            abstract_clause == IF c.abstract THEN ", abstract" ELSE ""
        IN  /\ text = "attribute " \o Lower(c.name) \o sub_clause
                          \o ", value " \o c.value_type \o abstract_clause \o ";"
            /\ Contains(text, " sub ") <=> supertype_set(c)
            /\ Contains(text, ", abstract") <=> c.abstract
            /\ EndsWith(text, ";")

AnnotationRank(a) ==
    IF a = "@key" THEN 1
    ELSE IF a = "@unique" THEN 2
    ELSE IF StartsWith(a, "@card(") THEN 3
    ELSE 0

C6_AnnotationOrder ==
    annotations # None =>
        LET anns == annotations[1] IN
        /\ \A i \in DOMAIN anns : AnnotationRank(anns[i]) > 0
        /\ \A i, j \in DOMAIN anns :
              i < j => AnnotationRank(anns[i]) < AnnotationRank(anns[j])
        /\ "@key" \in Range(anns) <=> HasKey(markers)
        /\ "@unique" \in Range(anns) <=> HasUnique(markers)

C6_Witness ==
    /\ annotations # None
    /\ Len(markers) = 3
    /\ markers[1].kind = "Card" /\ markers[2] = Unique /\ markers[3] = Key
    /\ annotations[1] = <<"@key", "@unique">>

(***************************************************************************)
(* C7.  With Unique and a resolved cardinality of exactly (1, 1) no        *)
(* "@card" annotation is emitted; with Unique, no Key and an explicit Card *)
(* that differs from (1, 1) in min or max, "@card" is emitted after        *)
(* "@unique".  The code emits nothing for Flag(Unique, Card()).            *)
(***************************************************************************)
C7_UniqueCardEmission ==
    (annotations # None /\ HasUnique(markers)) =>
        LET f == flags[1]
            anns == annotations[1]
            is_one_one == f.card_min = Some(1) /\ f.card_max = Some(1)
        IN  /\ is_one_one => ~EmitsCard(anns)
            /\ (~HasKey(markers) /\ HasCard(markers) /\ ~is_one_one) =>
                  /\ Len(anns) = 2
                  /\ anns[1] = "@unique"
                  /\ IsCardAnnotation(anns[2])

(***************************************************************************)
(* C8.  For a field with an explicit Card marker "@card" is emitted unless *)
(* Key is present or Unique is present with a resolved card of exactly     *)
(* (1, 1); in particular Card() on a field that is neither key nor unique  *)
(* emits "@card(0..)".  The code emits no annotation for Flag(Card()).     *)
(***************************************************************************)
C8_ExplicitCardEmission ==
    (annotations # None /\ HasCard(markers)) =>
        LET f == flags[1]
            anns == annotations[1]
            is_one_one == f.card_min = Some(1) /\ f.card_max = Some(1)
        IN  /\ EmitsCard(anns) <=> ~(f.is_key \/ (f.is_unique /\ is_one_one))
            /\ (LastCard(markers).min = None /\ LastCard(markers).max = None
                    /\ ~f.is_key /\ ~f.is_unique) =>
                  anns = <<"@card(0..)">>

C10_CardinalityInvariant ==
    /\ card # None => ValidCardinality(card[1].min, card[1].max)
    /\ flags # None => ValidCardinality(flags[1].card_min, flags[1].card_max)

(***************************************************************************)
(* C11.  As the docstrings of Card and Flag document, a field declared     *)
(* with Flag(Key, Card(min=1)) renders "@key" and "@card(1..)".  The code  *)
(* renders "@key" alone.                                                   *)
(***************************************************************************)
C11_KeyWithCardRendersBoth ==
    (annotations # None /\ markers = <<Key, CardObject(Some(1), None)>>) =>
        annotations[1] = <<"@key", "@card(1..)">>

CardCount(ms) == Cardinality({i \in DOMAIN ms : ms[i].kind = "Card"})

\* the permutations of 1..n, for every length of an argument list
PermutationsOf ==
    [n \in 0..(MaxMarkers + 1) |->
        {p \in [1..n -> 1..n] : \A i, j \in 1..n : p[i] = p[j] => i = j}]

Reordered(ms, p) == [i \in DOMAIN ms |-> ms[p[i]]]

C17_OrderIndependence ==
    annotations # None =>
        LET f == flags[1] IN
        /\ CardCount(markers) <= 1 =>
              /\ \A p \in PermutationsOf[Len(markers)] :
                    /\ Flag(Reordered(markers, p)) = f
                    /\ to_typeql_annotations(Flag(Reordered(markers, p))) = annotations[1]
              /\ \A i \in DOMAIN markers :
                    markers[i] \in {Key, Unique} =>
                        /\ Flag(Append(markers, markers[i])) = f
                        /\ Flag(<<markers[i]>> \o markers) = f
        /\ CardCount(markers) >= 2 =>
              /\ f.card_min = LastCard(markers).min
              /\ f.card_max = LastCard(markers).max

C17_Witness ==
    /\ annotations # None
    /\ Len(markers) = 3
    /\ markers[1] = CardObject(Some(0), Some(2))
    /\ markers[2] = Key
    /\ markers[3] = Unique
    /\ flags[1] = Flag(<<Unique, Key, CardObject(Some(0), Some(2))>>)
    /\ annotations[1] = <<"@key", "@unique">>

(***************************************************************************)
(* C16.  Every attribute subclass gets, at class creation, an attribute    *)
(* name equal to its own lowercased class name and never the name of its   *)
(* parent: along any chain of subclasses get_attribute_name of each class  *)
(* is that class's lowercased name, and it stays so for a parent after a   *)
(* subclass of it is created.                                              *)
(***************************************************************************)
C16_OwnAttributeName ==
    /\ \A i \in DOMAIN ancestors :
          get_attribute_name(ancestors[i]) = Lower(ancestors[i].name)
    /\ (cls # None /\ pc # "class") =>
          get_attribute_name(cls[1]) = Lower(cls[1].name)

C16_Witness ==
    /\ pc = "defined"
    /\ Len(ancestors) = 2
    /\ ancestors[1].name = "Name" /\ get_attribute_name(ancestors[1]) = "name"
    /\ ancestors[2].name = "PersonName"
    /\ get_attribute_name(ancestors[2]) = "personname"
    /\ cls[1].name = "Age" /\ get_attribute_name(cls[1]) = "age"

(***************************************************************************)
(* Vocabulary of the query properties.                                     *)
(***************************************************************************)
RECURSIVE FlattenCalls(_)
FlattenCalls(calls) ==
    IF calls = <<>> THEN <<>> ELSE Head(calls) \o FlattenCalls(Tail(calls))

AllRelations == {row.id : row \in Database}

ConditionOf(input) == CHOOSE c \in Conditions : input \in SurfaceTable[c]

AgePath == <<"employee", "age">>

(***************************************************************************)
(* C12.  A predicate written as a keyword lookup and written as a typed    *)
(* role-field expression yields the same internal predicate (path          *)
(* segments, operator, primitive operand) and the same compiled query      *)
(* text, and so selects the same relations.                                *)
(***************************************************************************)
C12_SurfacesAgree ==
    LET given == FlattenCalls(inputs)
        typed == [k \in DOMAIN given |-> Normalize(TypedOf(ConditionOf(given[k])))]
        lookups == [k \in DOMAIN given |-> Normalize(LookupOf(ConditionOf(given[k])))]
    IN  /\ Len(given) = Len(predicates)
        /\ \A k \in DOMAIN given :
              LET c == ConditionOf(given[k]) IN
              \A f \in SurfaceTable[c] :
                  /\ Normalize(f) = Predicate(c.path, c.op, c.operand)
                  /\ Normalize(f) = predicates[k]
        /\ results # None =>
              /\ Compile(typed) = query[1] /\ Compile(lookups) = query[1]
              /\ Execute(typed) = results[1] /\ Execute(lookups) = results[1]

C12_Witness ==
    /\ pc = "executed"
    /\ inputs = <<<<KeywordLookup("employee__age__gt", IntValue(25))>>>>
    /\ predicates = <<Predicate(AgePath, "gt", IntValue(25))>>
    /\ results = Some({"Alice", "Charlie"})

(***************************************************************************)
(* C13.  After any sequence of chained filter calls, each with any mixture *)
(* of keyword lookups and typed predicates, the accumulated predicates are *)
(* the predicates of every call in insertion order: no call removes or     *)
(* replaces a predicate of an earlier call, and the relations selected are *)
(* those every single predicate selects.                                   *)
(***************************************************************************)
C13_ChainedConjunction ==
    /\ predicates = NormalizeAll(FlattenCalls(inputs))
    /\ results # None =>
          results[1] = {id \in AllRelations :
                           \A k \in DOMAIN predicates : id \in Execute(<<predicates[k]>>)}

C13_Witness ==
    /\ pc = "executed"
    /\ inputs = <<<<TypedExpression(AgePath, "gte", "Age", IntValue(25))>>,
                  <<KeywordLookup("employer__name__contains", StrValue("Tech"))>>>>
    /\ Len(predicates) = 2
    /\ results = Some({"Alice", "Bob"})

(***************************************************************************)
(* C14.  A role-field comparison selects exactly the relations whose role  *)
(* player's attribute satisfies it: gt v > c, gte v >= c, lt v < c,        *)
(* lte v <= c, eq v = c, neq v /= c; eq and neq partition the relations,   *)
(* as do gt and lte, and lt and gte.  On the ages 25, 30, 40: gt(25),      *)
(* gte(30) select 30 and 40; lt(35), lte(30) select 25 and 30; eq(30)      *)
(* selects 30; neq(30) selects 25 and 40.                                  *)
(***************************************************************************)
Complement(op) ==
    CASE op = "eq" -> "neq" [] op = "neq" -> "eq"
      [] op = "gt" -> "lte" [] op = "lte" -> "gt"
      [] op = "lt" -> "gte" [] op = "gte" -> "lt"

C14_ComparisonSelection ==
    (results # None /\ Len(predicates) = 1 /\ predicates[1].path = AgePath) =>
        LET op == predicates[1].op
            c == predicates[1].operand.n
            selected == results[1]
            Aged(P(_)) == {row.id : row \in {r \in Database : P(r.employee.age.n)}}
            gt(v) == v > c
            gte(v) == v >= c
            lt(v) == v < c
            lte(v) == v <= c
            eq(v) == v = c
            neq(v) == v # c
        IN  /\ op = "gt" => selected = Aged(gt)
            /\ op = "gte" => selected = Aged(gte)
            /\ op = "lt" => selected = Aged(lt)
            /\ op = "lte" => selected = Aged(lte)
            /\ op = "eq" => selected = Aged(eq)
            /\ op = "neq" => selected = Aged(neq)
            /\ selected = AllRelations
                   \ Execute(<<Predicate(AgePath, Complement(op), predicates[1].operand)>>)
            /\ (op = "gt" /\ c = 25) => selected = {"Alice", "Charlie"}
            /\ (op = "gte" /\ c = 30) => selected = {"Alice", "Charlie"}
            /\ (op = "lt" /\ c = 35) => selected = {"Bob", "Alice"}
            /\ (op = "lte" /\ c = 30) => selected = {"Bob", "Alice"}
            /\ (op = "eq" /\ c = 30) => selected = {"Alice"}
            /\ (op = "neq" /\ c = 30) => selected = {"Bob", "Charlie"}

C14_Witness ==
    /\ pc = "executed"
    /\ inputs = <<<<TypedExpression(AgePath, "gte", "Age", IntValue(30))>>>>
    /\ results = Some({"Alice", "Charlie"})

====
